---- MODULE Spec2Model ----
(***************************************************************************)
(* SalaryCounter (src/salaryCounter.js, second component, lines 317-806):  *)
(* a React component holding a Schedule (day flags, work window, salary,   *)
(* currency) and two derived amounts that an interval callback recomputes  *)
(* from the Schedule and the wall clock.                                   *)
(*                                                                         *)
(* Numbers are JavaScript numbers restricted to exact fractions n/d, with  *)
(* d = 0 encoding the non-finite values (0/0 NaN, 1/0 Infinity, -1/0       *)
(* -Infinity).  Instants are Date values counted in clock ticks of         *)
(* 1/TicksPerHour hour since 00:00 of 1 May 2026.                          *)
(***************************************************************************)
EXTENDS Integers, Sequences, FiniteSets, TLC

VARIABLES dayToggles, annualSalary, startHour, endHour, currency,
          earnedSoFar, earnedToday, localStorage,
          now, mounted, intervals, due, edits, flips, memo, timer

vars == <<dayToggles, annualSalary, startHour, endHour, currency,
          earnedSoFar, earnedToday, localStorage,
          now, mounted, intervals, due, edits, flips, memo, timer>>

(***************************************************************************)
(* Bounds of the model.                                                    *)
(***************************************************************************)
\* clock ticks per hour: the resolution of the model's wall clock
TicksPerHour == 2
\* user edits in one behaviour of Spec
MaxEdits == 2
\* characters in one typed entry
MaxEntryLen == 2
\* clock ticks the wall clock may advance after the component mounted, in Spec
Horizon == 1
\* days the wall clock runs through in EngineSpec
EngineDays == 4

(***************************************************************************)
(* JavaScript numbers.                                                     *)
(***************************************************************************)
Sign(x) == IF x > 0 THEN 1 ELSE IF x < 0 THEN -1 ELSE 0

Abs(x) == IF x < 0 THEN -x ELSE x

RECURSIVE GCD(_, _)
GCD(a, b) == IF b = 0 THEN a ELSE GCD(b, a % b)

\* the number n/d in lowest terms; n/0 is NaN, Infinity or -Infinity
Num(n, d) ==
  IF d = 0 THEN [n |-> Sign(n), d |-> 0]
  ELSE LET g == GCD(Abs(n), Abs(d))
       IN  [n |-> Sign(n) * Sign(d) * (Abs(n) \div g), d |-> Abs(d) \div g]

Int2Num(i) == [n |-> i, d |-> 1]

Zero == Int2Num(0)

One == Int2Num(1)

NaN == [n |-> 0, d |-> 0]

isNaN(x) == x.d = 0 /\ x.n = 0

isFinite(x) == x.d # 0

\* a < b on numbers; false when either side is NaN
Lt(a, b) ==
  /\ ~isNaN(a)
  /\ ~isNaN(b)
  /\ IF isFinite(a) /\ isFinite(b) THEN a.n * b.d < b.n * a.d
     ELSE IF isFinite(a) THEN b.n > 0
     ELSE IF isFinite(b) THEN a.n < 0
     ELSE a.n < b.n

Gt(a, b) == Lt(b, a)

Le(a, b) == ~isNaN(a) /\ ~isNaN(b) /\ ~Lt(b, a)

\* a === b on numbers
StrictEq(a, b) == ~isNaN(a) /\ ~isNaN(b) /\ a = b

\* a / b
JsDiv(a, b) ==
  IF isNaN(a) \/ isNaN(b) THEN NaN
  ELSE IF ~isFinite(a) THEN
         IF ~isFinite(b) THEN NaN
         ELSE Num(a.n * (IF b.n < 0 THEN -1 ELSE 1), 0)
  ELSE IF ~isFinite(b) THEN Zero
  ELSE Num(a.n * b.d, a.d * b.n)

\* a * b
JsMul(a, b) ==
  IF isNaN(a) \/ isNaN(b) THEN NaN
  ELSE IF isFinite(a) /\ isFinite(b) THEN Num(a.n * b.n, a.d * b.d)
  ELSE Num(Sign(a.n) * Sign(b.n), 0)

\* a + b
JsAdd(a, b) ==
  IF isNaN(a) \/ isNaN(b) THEN NaN
  ELSE IF isFinite(a) /\ isFinite(b) THEN Num(a.n * b.d + b.n * a.d, a.d * b.d)
  ELSE IF isFinite(a) THEN b
  ELSE IF isFinite(b) THEN a
  ELSE IF a.n = b.n THEN a ELSE NaN

\* a - b
JsSub(a, b) == JsAdd(a, [n |-> -b.n, d |-> b.d])

MathMin(a, b) == IF isNaN(a) \/ isNaN(b) THEN NaN ELSE IF Lt(b, a) THEN b ELSE a

MathMax(a, b) == IF isNaN(a) \/ isNaN(b) THEN NaN ELSE IF Lt(a, b) THEN b ELSE a

(***************************************************************************)
(* Date: the local calendar of May and June 2026.  A month is counted      *)
(* from May 2026 (0); new Date(...) normalises a day or an hour outside    *)
(* its range into the neighbouring day or month, as the instant count      *)
(* does.                                                                   *)
(***************************************************************************)
MonthLengths == <<31, 30>>

TicksPerDay == 24 * TicksPerHour

\* the days of the calendar before the first day of `month`
RECURSIVE SumLengths(_)
SumLengths(month) ==
  IF month = 0 THEN 0 ELSE MonthLengths[month] + SumLengths(month - 1)

DaysBefore == [month \in 0 .. Len(MonthLengths) |-> SumLengths(month)]

\* new Date(year, month, day, hours, 0, 0)
NewDate(month, day, hours) ==
  (DaysBefore[month] + (day - 1)) * TicksPerDay + hours * TicksPerHour

Months == 0 .. (Len(MonthLengths) - 1)

\* the month each day of the calendar lies in
MonthOfDay ==
  [i \in 0 .. (DaysBefore[Len(MonthLengths)] - 1) |->
     CHOOSE m \in Months : DaysBefore[m] <= i /\ i < DaysBefore[m + 1]]

\* date.getMonth(), with the year
getMonth(date) == MonthOfDay[date \div TicksPerDay]

\* date.getDate()
getDate(date) == ((date \div TicksPerDay) - DaysBefore[getMonth(date)]) + 1

\* date.getDay(): 0 = Sunday; 1 May 2026 is a Friday
getDay(date) == ((date \div TicksPerDay) + 5) % 7

\* date.getHours()
getHours(date) == (date % TicksPerDay) \div TicksPerHour

\* date.getMinutes()
getMinutes(date) == ((date % TicksPerHour) * 60) \div TicksPerHour

\* a difference of two dates (milliseconds) / 1000 / 3600: hours
HoursBetween(from, to) == Num(to - from, TicksPerHour)

(***************************************************************************)
(* The accrual engine.  A schedule s carries the dayToggles, startHour and *)
(* endHour a render closes over; every "new Date()" of the source is a     *)
(* clock reading passed as an argument.                                    *)
(***************************************************************************)
\* the days of the week, 0 = Sunday
Weekdays == 0 .. 6

isDayEnabled(s, date) == s.dayToggles[getDay(date)]

getDailyWorkingHours(s) == Int2Num(s.endHour - s.startHour)

getWorkingHoursSoFarToday(s, clock) ==
  LET today == NewDate(getMonth(clock), getDate(clock), 0)
      startOfWork == NewDate(getMonth(today), getDate(today), s.startHour)
      endOfWork == NewDate(getMonth(today), getDate(today), s.endHour)
  IN  IF ~isDayEnabled(s, today) THEN Zero
      ELSE IF clock < startOfWork THEN Zero
      ELSE IF clock > endOfWork THEN Int2Num(s.endHour - s.startHour)
      ELSE HoursBetween(startOfWork, clock)

\* a variant that counts today only and adds nothing for the days before
SoFarThisMonthBody_TodayOnly(s, clock, month, date, day) ==
  LET dailyHours == Int2Num(s.endHour - s.startHour)
      startOfWork == NewDate(month, day, s.startHour)
      endOfWork == NewDate(month, day, s.endHour)
  IN  IF ~isDayEnabled(s, NewDate(month, day, 0)) \/ day # date THEN Zero
      ELSE IF clock < startOfWork THEN Zero
      ELSE IF clock > endOfWork THEN dailyHours
      ELSE HoursBetween(startOfWork, clock)

\* a variant that counts today as a full day
SoFarThisMonthBody_TodayInFull(s, clock, month, date, day) ==
  IF ~isDayEnabled(s, NewDate(month, day, 0)) THEN Zero
  ELSE IF day <= date THEN Int2Num(s.endHour - s.startHour)
  ELSE Zero

\* what the iteration for `day` of the loop of getWorkingHoursSoFarThisMonth
\* adds to totalHours; month and date are now.getMonth() and now.getDate()
SoFarThisMonthBody(s, clock, month, date, day) ==
  LET currentDayDate == NewDate(month, day, 0)
      dailyHours == Int2Num(s.endHour - s.startHour)
      startOfWork == NewDate(month, day, s.startHour)
      endOfWork == NewDate(month, day, s.endHour)
  IN  IF ~isDayEnabled(s, currentDayDate) THEN Zero
      ELSE IF day < date THEN dailyHours
      ELSE IF day = date THEN
             IF clock < startOfWork THEN Zero
             ELSE IF clock > endOfWork THEN dailyHours
             ELSE HoursBetween(startOfWork, clock)
      ELSE Zero

\* what the iterations first .. last of that loop add to totalHours (the range
\* is halved rather than walked, which keeps the evaluation shallow)
RECURSIVE SoFarThisMonthLoop(_, _, _, _, _, _)
SoFarThisMonthLoop(s, clock, month, date, first, last) ==
  IF first > last THEN Zero
  ELSE IF first = last THEN SoFarThisMonthBody(s, clock, month, date, first)
  ELSE LET mid == (first + last) \div 2
       IN  JsAdd(SoFarThisMonthLoop(s, clock, month, date, first, mid),
                 SoFarThisMonthLoop(s, clock, month, date, mid + 1, last))

\* a variant whose loop stops before today (day < now.getDate())
getWorkingHoursSoFarThisMonth_SkipsToday(s, clock) ==
  SoFarThisMonthLoop(s, clock, getMonth(clock), getDate(clock), 1, getDate(clock) - 1)

\* for (let day = 1; day <= now.getDate(); day++)
getWorkingHoursSoFarThisMonth(s, clock) ==
  SoFarThisMonthLoop(s, clock, getMonth(clock), getDate(clock), 1, getDate(clock))

\* new Date(new Date(year, month + 1, 1) - 1).getDate()
daysInMonth(clock) == getDate(NewDate(getMonth(clock) + 1, 1, 0) - 1)

\* what the iteration for `day` of the loop of getTotalWorkingHoursThisMonth
\* adds to workingHours
TotalThisMonthBody(s, month, day) ==
  IF isDayEnabled(s, NewDate(month, day, 0)) THEN s.endHour - s.startHour ELSE 0

\* what the iterations first .. last of that loop add to workingHours
RECURSIVE TotalThisMonthLoop(_, _, _, _)
TotalThisMonthLoop(s, month, first, last) ==
  IF first > last THEN 0
  ELSE IF first = last THEN TotalThisMonthBody(s, month, first)
  ELSE LET mid == (first + last) \div 2
       IN  TotalThisMonthLoop(s, month, first, mid)
             + TotalThisMonthLoop(s, month, mid + 1, last)

\* a variant whose loop stops before the last day (day < daysInMonth)
getTotalWorkingHoursThisMonth_SkipsLastDay(s, clock) ==
  Int2Num(TotalThisMonthLoop(s, getMonth(clock), 1, daysInMonth(clock) - 1))

\* for (let day = 1; day <= daysInMonth; day++)
getTotalWorkingHoursThisMonth(s, clock) ==
  Int2Num(TotalThisMonthLoop(s, getMonth(clock), 1, daysInMonth(clock)))

\* the loop of getTotalWorkingDaysPerYear from `day` on, workingDays so far
RECURSIVE WorkingDaysLoop(_, _, _)
WorkingDaysLoop(s, day, workingDays) ==
  IF ~(day < 7) THEN workingDays
  ELSE IF s.dayToggles[day] THEN WorkingDaysLoop(s, day + 1, workingDays + 1)
  ELSE WorkingDaysLoop(s, day + 1, workingDays)

\* a variant whose loop starts at day 1 and so never counts Sunday
getTotalWorkingDaysPerYear_SkipsSunday(s) == Int2Num(WorkingDaysLoop(s, 1, 0) * 52)

getTotalWorkingDaysPerYear(s) == Int2Num(WorkingDaysLoop(s, 0, 0) * 52)

\* Math.max(0, Math.min(1, elapsedHours / totalHours))
clamped(elapsedHours, totalHours) ==
  MathMax(Zero, MathMin(One, JsDiv(elapsedHours, totalHours)))

\* `fraction` of calculateDailyEarnings; 0 on the paths that return before it.
\* clock1 is the reading of calculateDailyEarnings itself, clock2 the one
\* getWorkingHoursSoFarToday takes
dailyFraction(s, clock1, clock2) ==
  LET today == NewDate(getMonth(clock1), getDate(clock1), 0)
      totalDailyWorkingHours == getDailyWorkingHours(s)
      elapsedHours == getWorkingHoursSoFarToday(s, clock2)
  IN  IF ~isDayEnabled(s, today) THEN Zero
      ELSE IF StrictEq(totalDailyWorkingHours, Zero) THEN Zero
      ELSE clamped(elapsedHours, totalDailyWorkingHours)

calculateDailyEarnings(s, annual, clock1, clock2) ==
  LET today == NewDate(getMonth(clock1), getDate(clock1), 0)
      totalWorkingDaysPerYear == getTotalWorkingDaysPerYear(s)
      dailyRate == IF Gt(totalWorkingDaysPerYear, Zero)
                   THEN JsDiv(annual, totalWorkingDaysPerYear) ELSE Zero
      totalDailyWorkingHours == getDailyWorkingHours(s)
      elapsedHours == getWorkingHoursSoFarToday(s, clock2)
  IN  IF ~isDayEnabled(s, today) THEN Zero
      ELSE IF StrictEq(totalDailyWorkingHours, Zero) THEN Zero
      ELSE JsMul(dailyRate, clamped(elapsedHours, totalDailyWorkingHours))

\* a variant without the safeguard for totalWorkingHours === 0
monthlyFraction_NoSafeguard(s, clock1, clock2) ==
  clamped(getWorkingHoursSoFarThisMonth(s, clock2),
          getTotalWorkingHoursThisMonth(s, clock1))

\* `fraction` of calculateEarnings; 0 on the path that returns before it.
\* clock1 is the reading getTotalWorkingHoursThisMonth takes, clock2 the one
\* getWorkingHoursSoFarThisMonth takes
monthlyFraction(s, clock1, clock2) ==
  LET totalWorkingHours == getTotalWorkingHoursThisMonth(s, clock1)
      elapsedHours == getWorkingHoursSoFarThisMonth(s, clock2)
  IN  IF StrictEq(totalWorkingHours, Zero) THEN Zero
      ELSE clamped(elapsedHours, totalWorkingHours)

\* a variant without the safeguard for totalWorkingHours === 0
calculateEarnings_NoSafeguard(s, annual, clock1, clock2) ==
  JsMul(JsDiv(annual, Int2Num(12)),
        clamped(getWorkingHoursSoFarThisMonth(s, clock2),
                getTotalWorkingHoursThisMonth(s, clock1)))

calculateEarnings(s, annual, clock1, clock2) ==
  LET monthly == JsDiv(annual, Int2Num(12))
      totalWorkingHours == getTotalWorkingHoursThisMonth(s, clock1)
      elapsedHours == getWorkingHoursSoFarThisMonth(s, clock2)
  IN  IF StrictEq(totalWorkingHours, Zero) THEN Zero
      ELSE JsMul(monthly, clamped(elapsedHours, totalWorkingHours))

\* the values calculateEarnings divides by, on the path it takes
calculateEarningsDivisors(s, clock1) ==
  LET totalWorkingHours == getTotalWorkingHoursThisMonth(s, clock1)
  IN  {Int2Num(12)}
        \cup (IF StrictEq(totalWorkingHours, Zero) THEN {} ELSE {totalWorkingHours})

\* the values calculateDailyEarnings divides by, on the path it takes
calculateDailyEarningsDivisors(s, clock1) ==
  LET today == NewDate(getMonth(clock1), getDate(clock1), 0)
      totalWorkingDaysPerYear == getTotalWorkingDaysPerYear(s)
      totalDailyWorkingHours == getDailyWorkingHours(s)
  IN  IF ~isDayEnabled(s, today) THEN {}
      ELSE (IF Gt(totalWorkingDaysPerYear, Zero) THEN {totalWorkingDaysPerYear} ELSE {})
             \cup (IF StrictEq(totalDailyWorkingHours, Zero) THEN {}
                   ELSE {totalDailyWorkingHours})

\* x.toFixed(1), for x >= 0: x rounded to one decimal
toFixed1(x) == Num((2 * 10 * x.n + x.d) \div (2 * x.d), 10)

\* todayPercentComplete of a render: 0, or the percentage in one decimal
todayPercentComplete(s, clock) ==
  LET today == NewDate(getMonth(clock), getDate(clock), 0)
      totalDailyHours == getDailyWorkingHours(s)
      elapsedTodayHours == getWorkingHoursSoFarToday(s, clock)
  IN  IF isDayEnabled(s, today) /\ Gt(totalDailyHours, Zero)
        THEN toFixed1(JsMul(JsDiv(elapsedTodayHours, totalDailyHours), Int2Num(100)))
      ELSE Zero

\* a variant that divides by the hours, not the seconds
earnedPerSecond_PerHour(s, annual, clock) ==
  LET totalWorkHours == getTotalWorkingHoursThisMonth(s, clock)
  IN  IF Gt(totalWorkHours, Zero) THEN JsDiv(JsDiv(annual, Int2Num(12)), totalWorkHours)
      ELSE Zero

\* isCurrentlyInWorkHours of a render
isCurrentlyInWorkHours(s, clock) ==
  LET today == NewDate(getMonth(clock), getDate(clock), 0)
      currentTimeInHours == Num(getHours(clock) * 60 + getMinutes(clock), 60)
  IN  IF ~isDayEnabled(s, today) THEN FALSE
      ELSE /\ ~Lt(currentTimeInHours, Int2Num(s.startHour))
           /\ Lt(currentTimeInHours, Int2Num(s.endHour))

\* earnedPerSecond of a render
earnedPerSecond(s, annual, clock) ==
  LET monthlySalaryRaw == JsDiv(annual, Int2Num(12))
      totalWorkHours == getTotalWorkingHoursThisMonth(s, clock)
      totalWorkSeconds == JsMul(totalWorkHours, Int2Num(3600))
  IN  IF Gt(totalWorkSeconds, Zero) THEN JsDiv(monthlySalaryRaw, totalWorkSeconds)
      ELSE Zero

(***************************************************************************)
(* Typed entries and their parsing.                                        *)
(***************************************************************************)
\* the characters an entry (e.target.value) is made of
Chars == {"7", ".", "-"}

DigitValue == [c \in {"7"} |-> 7]

isDigit(c) == c \in DOMAIN DigitValue

Entries == UNION {[1 .. k -> Chars] : k \in 0 .. MaxEntryLen}

\* the length of the run of digits of str that starts at position i
RECURSIVE DigitRun(_, _)
DigitRun(str, i) ==
  IF i <= Len(str) /\ isDigit(str[i]) THEN 1 + DigitRun(str, i + 1) ELSE 0

\* the value of the k digits of str that start at position i, after acc
RECURSIVE DigitsValue(_, _, _, _)
DigitsValue(str, i, k, acc) ==
  IF k = 0 THEN acc ELSE DigitsValue(str, i + 1, k - 1, acc * 10 + DigitValue[str[i]])

RECURSIVE Pow10(_)
Pow10(k) == IF k = 0 THEN 1 ELSE 10 * Pow10(k - 1)

\* parseInt(str): an optional sign and the leading digits; NaN without a digit
parseInt(str) ==
  LET negative == Len(str) >= 1 /\ str[1] = "-"
      first == IF negative THEN 2 ELSE 1
      k == DigitRun(str, first)
  IN  IF k = 0 THEN NaN
      ELSE Int2Num((IF negative THEN -1 ELSE 1) * DigitsValue(str, first, k, 0))

\* parseFloat(str): an optional sign, digits, and a "." with digits; NaN
\* without a digit
parseFloat(str) ==
  LET negative == Len(str) >= 1 /\ str[1] = "-"
      first == IF negative THEN 2 ELSE 1
      k == DigitRun(str, first)
      point == first + k <= Len(str) /\ str[first + k] = "."
      f == IF point THEN DigitRun(str, first + k + 1) ELSE 0
      whole == DigitsValue(str, first, k, 0)
      all == DigitsValue(str, first + k + 1, f, whole)
  IN  IF k + f = 0 THEN NaN
      ELSE Num((IF negative THEN -1 ELSE 1) * all, Pow10(f))

(***************************************************************************)
(* The component's state.                                                  *)
(***************************************************************************)
\* the four currencies of currencyMap, each named by its code
Currencies == {"USD", "GBP", "EUR", "JPY"}

\* the keys of the persisted settings: salary-counter-day-toggles,
\* -annual-salary, -start-hour, -end-hour, -currency
StorageKeys == {"dayToggles", "annualSalary", "startHour", "endHour", "currency"}

\* a local storage holding no setting: a key maps to {}, or to {v} once v is saved
EmptyStorage == [k \in StorageKeys |-> {}]

DefaultDayToggles == [d \in Weekdays |-> d \in 1 .. 5]

DefaultAnnualSalary == 30000

DefaultStartHour == 10

DefaultEndHour == 18

DefaultCurrency == "GBP"

\* a variant that behaves as useState(initialValue): nothing is restored
useLocalStorage_AsUseState(storage, key, initialValue) == initialValue

\* useLocalStorage(key, initialValue): the saved value of the key, or initialValue
useLocalStorage(storage, key, initialValue) ==
  IF storage[key] = {} THEN initialValue ELSE CHOOSE v \in storage[key] : TRUE

\* what the setter of useLocalStorage leaves in the storage
setStored(storage, key, value) == [storage EXCEPT ![key] = {value}]

\* the schedule the functions of the current render close over; the hours are
\* whole numbers (a default, or what parseInt gave)
Schedule ==
  [dayToggles |-> dayToggles, startHour |-> startHour.n, endHour |-> endHour.n]

\* the first render of the component at instant `clock` over `storage`, and its
\* effect, which schedules the interval
Mount(storage, clock) ==
  /\ localStorage = storage
  /\ dayToggles = useLocalStorage(storage, "dayToggles", DefaultDayToggles)
  /\ annualSalary = useLocalStorage(storage, "annualSalary", Int2Num(DefaultAnnualSalary))
  /\ startHour = useLocalStorage(storage, "startHour", Int2Num(DefaultStartHour))
  /\ endHour = useLocalStorage(storage, "endHour", Int2Num(DefaultEndHour))
  /\ currency = useLocalStorage(storage, "currency", DefaultCurrency)
  /\ earnedSoFar = Zero
  /\ earnedToday = Zero
  /\ now = clock
  /\ mounted = TRUE
  /\ intervals = 1
  /\ due = TRUE
  /\ edits = 0
  /\ flips = [d \in Weekdays |-> 0]
  /\ memo = Schedule
  /\ timer = [annual |-> annualSalary, schedule |-> memo]

\* the settings a previous session left behind, in Spec: none, or a salary and a
\* start hour
SavedSettings ==
  {EmptyStorage,
   [EmptyStorage EXCEPT !["annualSalary"] = {Int2Num(50000)}, !["startHour"] = {Int2Num(9)}]}

\* Wednesday 3 June 2026, 13:00
MountInstant == NewDate(1, 3, 13)

Init == \E storage \in SavedSettings : Mount(storage, MountInstant)

\* a variant whose effect returns no cleanup: setInterval without clearInterval
effectRerun_NoCleanup(n) == n + 1

\* the cleanup of the effect and its re-run after a render with a changed
\* dependency: clearInterval, then setInterval
effectRerun(n) == (n - 1) + 1

\* a variant with an empty dependency list: the callbacks of the first render
\* are kept for good
CallbackDeps_Empty == {}

\* the dependency list of useCallback for calculateEarnings and
\* calculateDailyEarnings
CallbackDeps == {"dayToggles", "startHour", "endHour"}

\* a variant of the effect's dependency list that names the two callbacks only
EffectDeps_CallbacksOnly == {"calculateEarnings", "calculateDailyEarnings"}

\* the dependency list of the effect
EffectDeps ==
  {"annualSalary", "startHour", "endHour", "dayToggles", "currency",
   "calculateEarnings", "calculateDailyEarnings"}

\* the value the current render has for a key
Field(key) ==
  CASE key = "dayToggles" -> dayToggles
    [] key = "annualSalary" -> annualSalary
    [] key = "startHour" -> startHour
    [] key = "endHour" -> endHour
    [] key = "currency" -> currency

\* the schedule of the render that follows the setting of `key` to `value`
ScheduleWith(key, value) ==
  CASE key = "dayToggles" -> [Schedule EXCEPT !.dayToggles = value]
    [] key = "startHour" -> [Schedule EXCEPT !.startHour = value.n]
    [] key = "endHour" -> [Schedule EXCEPT !.endHour = value.n]
    [] OTHER -> Schedule

\* an edit handler has set `key` to `value`: the setter saves it and the
\* component renders again; useCallback makes new callbacks (memo: the schedule
\* their helpers close over) when one of its dependencies changed, and the
\* effect re-runs when one of its dependencies changed: its cleanup, then a new
\* interval whose callback (timer) closes over the salary and the callbacks of
\* this render
Edited(key, value) ==
  LET changed == value # Field(key)
      newCallbacks == changed /\ key \in CallbackDeps
      newMemo == IF newCallbacks THEN ScheduleWith(key, value) ELSE memo
      rerun == \/ changed /\ key \in EffectDeps
               \/ newCallbacks
                    /\ {"calculateEarnings", "calculateDailyEarnings"} \cap EffectDeps # {}
  IN  /\ mounted
      /\ edits < MaxEdits
      /\ edits' = edits + 1
      /\ localStorage' = setStored(localStorage, key, value)
      /\ memo' = newMemo
      /\ timer' = IF rerun
                    THEN [annual |-> IF key = "annualSalary" THEN value ELSE annualSalary,
                          schedule |-> newMemo]
                  ELSE timer
      /\ intervals' = IF rerun THEN effectRerun(intervals) ELSE intervals
      /\ due' = TRUE
      /\ UNCHANGED <<earnedSoFar, earnedToday, now, mounted>>

\* let val = parseFloat(e.target.value); if (isNaN(val)) val = 0
salaryOfEntry(entry) == IF isNaN(parseFloat(entry)) THEN Zero ELSE parseFloat(entry)

\* a variant without the isNaN check
hourOfEntry_KeepsNaN(entry) == parseInt(entry)

\* let val = parseInt(e.target.value); if (isNaN(val)) val = 0
hourOfEntry(entry) == IF isNaN(parseInt(entry)) THEN Zero ELSE parseInt(entry)

handleSalaryChange(entry) ==
  /\ annualSalary' = salaryOfEntry(entry)
  /\ Edited("annualSalary", annualSalary')
  /\ UNCHANGED <<dayToggles, startHour, endHour, currency, flips>>

handleStartHourChange(entry) ==
  /\ startHour' = hourOfEntry(entry)
  /\ Edited("startHour", startHour')
  /\ UNCHANGED <<dayToggles, annualSalary, endHour, currency, flips>>

handleEndHourChange(entry) ==
  /\ endHour' = hourOfEntry(entry)
  /\ Edited("endHour", endHour')
  /\ UNCHANGED <<dayToggles, annualSalary, startHour, currency, flips>>

handleCurrencyChange(value) ==
  /\ currency' = value
  /\ Edited("currency", value)
  /\ UNCHANGED <<dayToggles, annualSalary, startHour, endHour, flips>>

\* a variant that switches the day on whatever it was
toggled_SwitchesOn(prev, dayIndex) == [prev EXCEPT ![dayIndex] = TRUE]

\* setDayToggles((prev) => ({...prev, [dayIndex]: !prev[dayIndex]}))
toggled(prev, dayIndex) == [prev EXCEPT ![dayIndex] = ~prev[dayIndex]]

\* flips counts the calls of handleDayToggle for each day (history)
handleDayToggle(dayIndex) ==
  /\ dayToggles' = toggled(dayToggles, dayIndex)
  /\ Edited("dayToggles", dayToggles')
  /\ flips' = [flips EXCEPT ![dayIndex] = flips[dayIndex] + 1]
  /\ UNCHANGED <<annualSalary, startHour, endHour, currency>>

\* the interval callback: calculateEarnings, then calculateDailyEarnings, of the
\* salary and the callbacks the interval closed over, each helper taking its own
\* clock reading; the wall clock may move on between two readings, and never
\* beyond `limit`
Tick(limit) ==
  /\ intervals > 0
  /\ \E r1, r2 \in now .. (IF now < limit THEN now + 1 ELSE now) :
       /\ r1 <= r2
       /\ earnedSoFar' = calculateEarnings(timer.schedule, timer.annual, r1, r2)
       /\ \E r3, r4 \in r2 .. (IF now < limit THEN now + 1 ELSE now) :
            /\ r3 <= r4
            /\ earnedToday' = calculateDailyEarnings(timer.schedule, timer.annual, r3, r4)
            /\ now' = r4
  /\ due' = FALSE
  /\ UNCHANGED <<dayToggles, annualSalary, startHour, endHour, currency,
                 localStorage, mounted, intervals, edits, flips, memo, timer>>

\* the wall clock passes to the next instant; a callback that is due (the
\* interval's period is 50 ms) runs before a later instant is reached
ClockAdvance(limit) ==
  /\ now < limit
  /\ intervals = 0 \/ ~due
  /\ now' = now + 1
  /\ due' = (intervals > 0)
  /\ UNCHANGED <<dayToggles, annualSalary, startHour, endHour, currency,
                 earnedSoFar, earnedToday, localStorage, mounted, intervals, edits,
                 flips, memo, timer>>

\* the component is torn down: the effect's cleanup clears the interval
Unmount ==
  /\ mounted
  /\ mounted' = FALSE
  /\ intervals' = intervals - 1
  /\ due' = FALSE
  /\ UNCHANGED <<dayToggles, annualSalary, startHour, endHour, currency,
                 earnedSoFar, earnedToday, localStorage, now, edits, flips, memo,
                 timer>>

Next ==
  \/ \E entry \in Entries : handleSalaryChange(entry)
  \/ \E entry \in Entries : handleStartHourChange(entry)
  \/ \E entry \in Entries : handleEndHourChange(entry)
  \/ \E value \in Currencies : handleCurrencyChange(value)
  \/ \E dayIndex \in Weekdays : handleDayToggle(dayIndex)
  \/ Tick(MountInstant + Horizon)
  \/ ClockAdvance(MountInstant + Horizon)
  \/ Unmount

Spec == Init /\ [][Next]_vars

\* a step in which a scheduled interval's callback runs after an edit or a
\* move of the clock: of the steps of Next exactly those of Tick taken when a
\* callback is due (an edit sets due, ClockAdvance waits for the callback and
\* Unmount ends mounted)
IntervalFires ==
  /\ intervals > 0
  /\ due
  /\ due' = FALSE
  /\ mounted' = mounted

\* the interval keeps calling its callback for as long as it is scheduled
FairSpec == Spec /\ WF_<<due, mounted>>(IntervalFires)

(***************************************************************************)
(* The engine over a fixed Schedule: the component mounts over the         *)
(* settings an earlier session saved, and the clock runs from Sunday 31    *)
(* May 2026 into June with no edit.                                        *)
(***************************************************************************)
AllOff == [d \in Weekdays |-> FALSE]

AllOn == [d \in Weekdays |-> TRUE]

EngineDayToggles == {DefaultDayToggles, AllOff, AllOn}

\* <<startHour, endHour>>: the default window, an inverted one, an empty one,
\* and one that leaves the day on both sides
EngineHours == {<<10, 18>>, <<18, 10>>, <<9, 9>>, <<-7, 77>>}

EngineSalaries == {Zero, Int2Num(DefaultAnnualSalary)}

EngineSettings ==
  {[EmptyStorage EXCEPT !["dayToggles"] = {t}, !["startHour"] = {Int2Num(h[1])},
                        !["endHour"] = {Int2Num(h[2])}, !["annualSalary"] = {a}] :
     t \in EngineDayToggles, h \in EngineHours, a \in EngineSalaries}

\* Sunday 31 May 2026, 00:00
EngineStart == NewDate(0, 31, 0)

EngineLimit == EngineStart + EngineDays * TicksPerDay - 1

EngineInit == \E storage \in EngineSettings : Mount(storage, EngineStart)

EngineNext == Tick(EngineLimit) \/ ClockAdvance(EngineLimit)

EngineSpec == EngineInit /\ [][EngineNext]_vars

\* the value earnedPerSecond's computation divides by, on the path it takes
earnedPerSecondDivisors(s, clock) ==
  LET totalWorkSeconds == JsMul(getTotalWorkingHoursThisMonth(s, clock), Int2Num(3600))
  IN  {Int2Num(12)} \cup (IF Gt(totalWorkSeconds, Zero) THEN {totalWorkSeconds} ELSE {})

(***************************************************************************)
(* Properties.                                                             *)
(***************************************************************************)
\* the clock readings one callback or render may take in EngineSpec
EngineReadings == now .. (IF now < EngineLimit THEN now + 1 ELSE now)

InUnitInterval(x) == isFinite(x) /\ Le(Zero, x) /\ Le(x, One)

isWorkingDay(clock) == dayToggles[getDay(clock)]

\* C1: for every Schedule (any day flags, any hours, an inverted or empty
\* window included) and every clock reading, the monthly fraction of
\* calculateEarnings and the daily fraction of calculateDailyEarnings are
\* finite numbers in [0,1], never NaN.
C1_FractionsInUnitInterval ==
  \A c1, c2 \in EngineReadings :
    c1 <= c2 =>
      /\ InUnitInterval(monthlyFraction(Schedule, c1, c2))
      /\ InUnitInterval(dailyFraction(Schedule, c1, c2))

\* an inverted window on a working day, after a callback that gave earnings
C1_Witness ==
  /\ startHour.n > endHour.n
  /\ isWorkingDay(now)
  /\ ~due
  /\ earnedToday # Zero
  /\ dailyFraction(Schedule, now, now) = One

\* the first instant of the day of `clock`
StartOfDay(clock) == NewDate(getMonth(clock), getDate(clock), 0)

\* on a working day the elapsed hours at `now` are at least those at every
\* earlier instant of the day, and are the daily hours from the end boundary on
ElapsedTodayGrows ==
  isWorkingDay(now) =>
    /\ \A t \in StartOfDay(now) .. now :
         Le(getWorkingHoursSoFarToday(Schedule, t),
            getWorkingHoursSoFarToday(Schedule, now))
    /\ now >= StartOfDay(now) + endHour.n * TicksPerHour =>
         getWorkingHoursSoFarToday(Schedule, now) = Int2Num(endHour.n - startHour.n)

\* C2: for a fixed Schedule and a working day, elapsedHoursToday is
\* non-decreasing as now advances through the day and equals endHour - startHour
\* for every now at or after the endHour boundary.  (Violated by a window with
\* endHour < startHour: 0 between the two boundaries, endHour - startHour < 0
\* after startHour.)
C2_ElapsedTodayMonotone == ElapsedTodayGrows

\* what does hold: the same for every Schedule with startHour <= endHour
ElapsedTodayGrowsInOrderedWindow == startHour.n <= endHour.n => ElapsedTodayGrows

\* C3: with all 7 day flags off, for every now, window and salary, the total
\* working hours of the month, the working days per year, the monthly and the
\* daily earnings and the earnings per second are 0, and no step divides by 0.
C3_AllDaysOff ==
  (\A d \in Weekdays : ~dayToggles[d]) =>
    /\ getTotalWorkingDaysPerYear(Schedule) = Zero
    /\ earnedSoFar = Zero
    /\ earnedToday = Zero
    /\ \A c1, c2 \in EngineReadings :
         c1 <= c2 =>
           /\ getTotalWorkingHoursThisMonth(Schedule, c1) = Zero
           /\ calculateEarnings(Schedule, annualSalary, c1, c2) = Zero
           /\ calculateDailyEarnings(Schedule, annualSalary, c1, c2) = Zero
           /\ earnedPerSecond(Schedule, annualSalary, c1) = Zero
           /\ Zero \notin calculateEarningsDivisors(Schedule, c1)
           /\ Zero \notin calculateDailyEarningsDivisors(Schedule, c1)
           /\ Zero \notin earnedPerSecondDivisors(Schedule, c1)

\* all days off, a salary and a window, after a callback
C3_Witness ==
  /\ \A d \in Weekdays : ~dayToggles[d]
  /\ annualSalary # Zero
  /\ startHour.n < endHour.n
  /\ ~due
  /\ now > EngineStart

\* the readings the last callback may have taken, in EngineSpec
EngineRecent == (IF now > EngineStart THEN now - 1 ELSE now) .. now

\* the weekday of a day of a month, from the calendar
WeekdayOf(month, day) == (DaysBefore[month] + (day - 1) + 5) % 7

\* how many of the days 1 .. lastDay of the month are flagged on
WorkingDaysIn(month, lastDay) ==
  Cardinality({day \in 1 .. lastDay : dayToggles[WeekdayOf(month, day)]})

\* (endHour - startHour) summed over the flagged days of the month of `clock`
TotalHoursOfMonth(clock) ==
  (endHour.n - startHour.n)
    * WorkingDaysIn(getMonth(clock), MonthLengths[getMonth(clock) + 1])

\* a finite number clamped to [0,1]
Clamp01(x) == IF Lt(x, Zero) THEN Zero ELSE IF Gt(x, One) THEN One ELSE x

\* (annualSalary / 12) * clamp(elapsedHoursThisMonth / totalWorkingHoursThisMonth)
MonthlyEarnings(c1, c2) ==
  IF TotalHoursOfMonth(c1) = 0 THEN Zero
  ELSE JsMul(JsDiv(annualSalary, Int2Num(12)),
             Clamp01(JsDiv(getWorkingHoursSoFarThisMonth(Schedule, c2),
                           Int2Num(TotalHoursOfMonth(c1)))))

\* C4: for every Schedule and now, calculateEarnings returns (annualSalary / 12)
\* times elapsedHoursThisMonth / totalWorkingHoursThisMonth clamped to [0,1],
\* the total being (endHour - startHour) summed over the flagged days
\* 1..daysInMonth of the month, and returns 0 when that total is 0; the
\* earnedSoFar a callback stored is that value.
C4_MonthlyEarnings ==
  /\ \A c1, c2 \in EngineReadings :
       c1 <= c2 =>
         /\ getTotalWorkingHoursThisMonth(Schedule, c1) = Int2Num(TotalHoursOfMonth(c1))
         /\ calculateEarnings(Schedule, annualSalary, c1, c2) = MonthlyEarnings(c1, c2)
  /\ ~due => \E c1, c2 \in EngineRecent :
               c1 <= c2 /\ earnedSoFar = MonthlyEarnings(c1, c2)

\* a callback stored earnings of a month that is partly worked
C4_Witness ==
  /\ ~due
  /\ Lt(Zero, monthlyFraction(Schedule, now, now))
  /\ Lt(monthlyFraction(Schedule, now, now), One)
  /\ earnedSoFar # Zero
  /\ earnedSoFar = JsMul(JsDiv(annualSalary, Int2Num(12)),
                         monthlyFraction(Schedule, now, now))

\* how many of the seven day flags are on
FlagsOn == Cardinality({d \in Weekdays : dayToggles[d]})

\* (annualSalary / totalWorkingDaysPerYear) * dailyFraction, 0 without a working
\* day or on a day that is not flagged
DailyEarnings(c1, c2) ==
  IF FlagsOn = 0 \/ ~isWorkingDay(c1) THEN Zero
  ELSE JsMul(JsDiv(annualSalary, Int2Num(52 * FlagsOn)),
             IF endHour.n = startHour.n THEN Zero
             ELSE Clamp01(JsDiv(getWorkingHoursSoFarToday(Schedule, c2),
                                Int2Num(endHour.n - startHour.n))))

\* C5: for every Schedule and now, calculateDailyEarnings returns
\* (annualSalary / totalWorkingDaysPerYear) * dailyFraction with
\* totalWorkingDaysPerYear = 52 * (number of flags on); it returns 0 when that is
\* 0 or today is not flagged, and on such a day the daily fraction and today's
\* progress are 0 too; the earnedToday a callback stored is that value.
C5_DailyEarnings ==
  /\ getTotalWorkingDaysPerYear(Schedule) = Int2Num(52 * FlagsOn)
  /\ \A c1, c2 \in EngineReadings :
       c1 <= c2 =>
         /\ calculateDailyEarnings(Schedule, annualSalary, c1, c2) = DailyEarnings(c1, c2)
         /\ ~isWorkingDay(c1) =>
              /\ dailyFraction(Schedule, c1, c2) = Zero
              /\ todayPercentComplete(Schedule, c1) = Zero
  /\ ~due => \E c1, c2 \in EngineRecent :
               c1 <= c2 /\ earnedToday = DailyEarnings(c1, c2)

\* a callback stored the earnings of a working day that is partly worked
C5_Witness ==
  /\ ~due
  /\ isWorkingDay(now)
  /\ Lt(Zero, dailyFraction(Schedule, now, now))
  /\ Lt(dailyFraction(Schedule, now, now), One)
  /\ earnedToday # Zero
  /\ earnedToday = DailyEarnings(now, now)

\* totalWorkingHoursThisMonth * 3600
WorkSecondsOfMonth(clock) == 3600 * TotalHoursOfMonth(clock)

\* (annualSalary / 12) / (totalWorkingHoursThisMonth * 3600)
PerSecondQuotient(clock) ==
  JsDiv(JsDiv(annualSalary, Int2Num(12)), Int2Num(WorkSecondsOfMonth(clock)))

\* C6 as claimed: earningsPerSecond is (annualSalary/12) /
\* (totalWorkingHoursThisMonth * 3600) whenever that denominator is not 0, a
\* negative one included, and 0 when the denominator is 0.
C6_AnyNonZeroDenominator ==
  \A c \in EngineReadings :
    earnedPerSecond(Schedule, annualSalary, c)
      = IF WorkSecondsOfMonth(c) = 0 THEN Zero ELSE PerSecondQuotient(c)

\* C6, amended: earningsPerSecond is that quotient whenever the denominator is
\* greater than 0, and 0 whenever the denominator is 0 or negative.
C6_EarningsPerSecond ==
  \A c \in EngineReadings :
    earnedPerSecond(Schedule, annualSalary, c)
      = IF WorkSecondsOfMonth(c) > 0 THEN PerSecondQuotient(c) ELSE Zero

\* a render after a callback, with a salary and a month that has working hours
C6_Witness ==
  /\ ~due
  /\ WorkSecondsOfMonth(now) > 0
  /\ Gt(earnedPerSecond(Schedule, annualSalary, now), Zero)
  /\ earnedSoFar # Zero

\* Wednesday 3 June 2026, 14:00: the month has a Monday and a Tuesday before it
ExampleInstant == NewDate(1, 3, 14)

\* C7: for every Schedule and now, getWorkingHoursSoFarThisMonth is (number of
\* working days with a day-of-month before today's) * (endHour - startHour)
\* plus the value getWorkingHoursSoFarToday returns for the same now; with
\* Mon-Fri, 10-18, on a Wednesday at 14:00 after a Monday and a Tuesday that is
\* 4 hours today and 20 hours this month.
C7_ElapsedThisMonth ==
  /\ \A c \in EngineReadings :
       getWorkingHoursSoFarThisMonth(Schedule, c)
         = JsAdd(Int2Num(WorkingDaysIn(getMonth(c), getDate(c) - 1)
                           * (endHour.n - startHour.n)),
                 getWorkingHoursSoFarToday(Schedule, c))
  /\ (dayToggles = DefaultDayToggles /\ startHour.n = 10 /\ endHour.n = 18
        /\ now = ExampleInstant) =>
       /\ getWorkingHoursSoFarToday(Schedule, now) = Int2Num(4)
       /\ getWorkingHoursSoFarThisMonth(Schedule, now) = Int2Num(20)

\* the example, after a callback that stored 20/176 of the monthly salary
C7_Witness ==
  /\ dayToggles = DefaultDayToggles
  /\ startHour.n = 10
  /\ endHour.n = 18
  /\ now = ExampleInstant
  /\ getDay(now) = 3
  /\ ~due
  /\ annualSalary = Int2Num(30000)
  /\ earnedSoFar = JsMul(Int2Num(2500), Num(20, 176))

\* C8: handleDayToggle(d) inverts the flag of weekday d and leaves the other
\* six flags, annualSalary, startHour, endHour and currency unchanged; in a
\* component that started with the default flags, after any sequence of toggles
\* a day's flag is its default when the day was flipped an even number of times
\* and the opposite when it was flipped an odd number of times.
C8_DayToggle ==
  /\ [](\A d \in Weekdays :
          dayToggles[d] = IF flips[d] % 2 = 0 THEN d \in {1, 2, 3, 4, 5}
                          ELSE d \notin {1, 2, 3, 4, 5})
  /\ [][\A d \in Weekdays :
          handleDayToggle(d) =>
            /\ dayToggles'[d] = ~dayToggles[d]
            /\ \A e \in Weekdays \ {d} : dayToggles'[e] = dayToggles[e]
            /\ UNCHANGED <<annualSalary, startHour, endHour, currency>>]_vars

\* Sunday was switched on and Monday off
C8_Witness ==
  /\ flips[0] = 1
  /\ flips[1] = 1
  /\ dayToggles[0]
  /\ ~dayToggles[1]
  /\ \A d \in 2 .. 6 : dayToggles[d] = DefaultDayToggles[d]

\* Monday to Friday on, 10 to 18, 30000, GBP
ScheduleIsDefault ==
  /\ dayToggles = [d \in 0 .. 6 |-> d \in {1, 2, 3, 4, 5}]
  /\ startHour = Int2Num(10)
  /\ endHour = Int2Num(18)
  /\ annualSalary = Int2Num(30000)
  /\ currency = "GBP"

\* every field is the value saved for it, or its default when none is saved
ScheduleIsSavedOrDefault ==
  /\ dayToggles \in (IF localStorage["dayToggles"] = {}
                      THEN {[d \in 0 .. 6 |-> d \in {1, 2, 3, 4, 5}]}
                      ELSE localStorage["dayToggles"])
  /\ startHour \in (IF localStorage["startHour"] = {} THEN {Int2Num(10)}
                     ELSE localStorage["startHour"])
  /\ endHour \in (IF localStorage["endHour"] = {} THEN {Int2Num(18)}
                   ELSE localStorage["endHour"])
  /\ annualSalary \in (IF localStorage["annualSalary"] = {} THEN {Int2Num(30000)}
                        ELSE localStorage["annualSalary"])
  /\ currency \in (IF localStorage["currency"] = {} THEN {"GBP"}
                    ELSE localStorage["currency"])

\* a step changes a Schedule field only if it is an edit, and a callback of
\* the interval changes none
OnlyEditsChangeSchedule ==
  /\ <<dayToggles, annualSalary, startHour, endHour, currency>>'
        # <<dayToggles, annualSalary, startHour, endHour, currency>>
       => \/ \E entry \in Entries : handleSalaryChange(entry)
          \/ \E entry \in Entries : handleStartHourChange(entry)
          \/ \E entry \in Entries : handleEndHourChange(entry)
          \/ \E value \in Currencies : handleCurrencyChange(value)
          \/ \E dayIndex \in Weekdays : handleDayToggle(dayIndex)
  /\ Tick(MountInstant + Horizon)
       => UNCHANGED <<dayToggles, annualSalary, startHour, endHour, currency>>

\* C9 as claimed: a newly created component starts with the Schedule defaults
\* (Monday to Friday, 10 to 18, 30000, GBP), and afterwards a Schedule field
\* changes only by an explicit user edit, never by a refresh tick.
C9_DefaultsThenOnlyEdits == ScheduleIsDefault /\ [][OnlyEditsChangeSchedule]_vars

\* C9, amended: a newly created component starts, field by field, with the
\* saved setting or with the default when none is saved, and afterwards a
\* Schedule field changes only by an explicit user edit, never by a refresh tick.
C9_SavedOrDefaultsThenOnlyEdits ==
  ScheduleIsSavedOrDefault /\ [][OnlyEditsChangeSchedule]_vars

\* a component that restored a saved salary and start hour, after a callback
C9_Witness ==
  /\ edits = 0
  /\ ~due
  /\ now > MountInstant
  /\ annualSalary = Int2Num(50000)
  /\ startHour = Int2Num(9)
  /\ endHour = Int2Num(18)
  /\ earnedSoFar # Zero

\* k times the digit 7, and its value
Sevens(k) == [i \in 1 .. k |-> "7"]

SevensValue(k) == ((Pow10(k) - 1) \div 9) * 7

IsPrefix(p, str) == Len(p) <= Len(str) /\ SubSeq(str, 1, Len(p)) = p

\* the numerals of the characters of Chars: a sign, i digits, a point, j digits
Numerals ==
  {nm \in [neg : BOOLEAN, i : 0 .. MaxEntryLen, point : BOOLEAN, j : 0 .. MaxEntryLen] :
     nm.i + nm.j >= 1 /\ (~nm.point => nm.j = 0)}

NumeralText(nm) ==
  (IF nm.neg THEN <<"-">> ELSE <<>>) \o Sevens(nm.i)
    \o (IF nm.point THEN <<".">> ELSE <<>>) \o Sevens(nm.j)

NumeralValue(nm) ==
  Num((IF nm.neg THEN -1 ELSE 1) * (SevensValue(nm.i) * Pow10(nm.j) + SevensValue(nm.j)),
      Pow10(nm.j))

\* the value of the longest numeral of `numerals` the entry starts with, or 0
EnteredNumber(numerals, entry) ==
  LET found == {nm \in numerals : IsPrefix(NumeralText(nm), entry)}
  IN  IF found = {} THEN Zero
      ELSE NumeralValue(CHOOSE nm \in found :
                          \A other \in found :
                            Len(NumeralText(other)) <= Len(NumeralText(nm)))

\* the numerals an hour field reads: whole numbers with at least one digit
WholeNumerals == {nm \in Numerals : ~nm.point /\ nm.i >= 1}

isWholeNumber(x) == isFinite(x) /\ x.d = 1

\* C10: an edit of the salary, start-hour or end-hour input stores the number
\* the entry starts with (a decimal number for the salary, a whole number for
\* the hours) in its field and 0 when the entry has no such number, and leaves
\* every other Schedule field unchanged; the three fields always hold numbers.
C10_NumericEdits ==
  /\ [](isFinite(annualSalary) /\ isWholeNumber(startHour) /\ isWholeNumber(endHour))
  /\ [][\A entry \in Entries :
          /\ handleSalaryChange(entry) =>
               /\ annualSalary' = EnteredNumber(Numerals, entry)
               /\ UNCHANGED <<dayToggles, startHour, endHour, currency>>
          /\ handleStartHourChange(entry) =>
               /\ startHour' = EnteredNumber(WholeNumerals, entry)
               /\ UNCHANGED <<dayToggles, annualSalary, endHour, currency>>
          /\ handleEndHourChange(entry) =>
               /\ endHour' = EnteredNumber(WholeNumerals, entry)
               /\ UNCHANGED <<dayToggles, annualSalary, startHour, currency>>]_vars

\* the salary was edited to .7 and the end hour to an entry without a number
C10_Witness ==
  /\ edits = 2
  /\ annualSalary = Num(7, 10)
  /\ localStorage["annualSalary"] = {Num(7, 10)}
  /\ endHour = Zero
  /\ localStorage["endHour"] = {Zero}
  /\ startHour \in {Int2Num(9), Int2Num(10)}

\* C11: at most one refresh interval is scheduled in every reachable state (one
\* while the component is mounted, an edit replacing it by clearing it first),
\* and once the component is torn down none is scheduled and no later step
\* writes earnedSoFar or earnedToday.
C11_SingleInterval ==
  /\ [](intervals = IF mounted THEN 1 ELSE 0)
  /\ [][mounted' => mounted]_vars
  /\ [][~mounted => UNCHANGED <<earnedSoFar, earnedToday>>]_vars

\* torn down after an edit and a callback, and the wall clock has moved on since
C11_Witness ==
  /\ ~mounted
  /\ intervals = 0
  /\ edits >= 1
  /\ now = MountInstant + Horizon
  /\ earnedSoFar # Zero
  /\ earnedSoFar # calculateEarnings(Schedule, annualSalary, now, now)

\* C12: every callback of the interval sets earnedSoFar to the monthly and
\* earnedToday to the daily earnings of the Schedule and salary as they are at
\* that moment and of the clock (so whatever the two held before), and the
\* scheduled callback never holds a salary, hours or day flags from before an
\* edit.
C12_TickRecomputes ==
  /\ [](mounted => timer = [annual |-> annualSalary, schedule |-> Schedule])
  /\ [][Tick(MountInstant + Horizon) =>
          \E r1, r2, r3, r4 \in now .. now' :
            /\ r1 <= r2 /\ r2 <= r3 /\ r3 <= r4
            /\ earnedSoFar' = MonthlyEarnings(r1, r2)
            /\ earnedToday' = DailyEarnings(r3, r4)]_vars

\* a callback ran after the salary was edited to 77, over amounts of the
\* salary before
C12_Witness ==
  /\ mounted
  /\ ~due
  /\ edits >= 1
  /\ annualSalary = Int2Num(77)
  /\ earnedSoFar = MonthlyEarnings(now, now)
  /\ earnedToday = DailyEarnings(now, now)
  /\ earnedSoFar # Zero

\* C13: all values derived in one callback of the interval come from one
\* single clock reading: the amounts a callback stored are the monthly and the
\* daily earnings of one and the same instant, also when the wall clock
\* advances while the callback computes.  (Violated: each helper reads the clock
\* itself, so earnedSoFar and earnedToday may be of different instants, and the
\* total and the elapsed hours of earnedSoFar of different months.)
C13_SingleClockReading ==
  ~due => \E c \in EngineRecent :
            /\ earnedSoFar = MonthlyEarnings(c, c)
            /\ earnedToday = DailyEarnings(c, c)

\* the instant before `now` is of the same day, and neither is in work hours
IdleSinceLastInstant ==
  /\ now > StartOfDay(now)
  /\ ~isCurrentlyInWorkHours(Schedule, now - 1)
  /\ ~isCurrentlyInWorkHours(Schedule, now)

\* the monthly and the daily earnings are the same at `now` and the instant before
SameEarningsAsLastInstant ==
  /\ calculateEarnings(Schedule, annualSalary, now - 1, now - 1)
       = calculateEarnings(Schedule, annualSalary, now, now)
  /\ calculateDailyEarnings(Schedule, annualSalary, now - 1, now - 1)
       = calculateDailyEarnings(Schedule, annualSalary, now, now)

\* C14: earnings change only inside the work window: for a fixed Schedule and
\* two instants of the same day with isCurrentlyInWorkHours false from the one
\* to the other, earningsThisMonth and earningsToday are the same at both;
\* stated for every two successive instants of the clock, which gives it for
\* all.  (Violated by a window with endHour < startHour, which is never in
\* work hours and whose earnings change at startHour.)
C14_EarningsOnlyInWorkWindow == IdleSinceLastInstant => SameEarningsAsLastInstant

\* what does hold: the same for every Schedule with startHour <= endHour
EarningsOnlyInOrderedWorkWindow ==
  startHour.n <= endHour.n => C14_EarningsOnlyInWorkWindow

\* C15: for a fixed Schedule with annualSalary >= 0, earningsThisMonth does not
\* decrease as now advances through one calendar month: calculateEarnings at an
\* instant is at most calculateEarnings at every later instant of the month;
\* stated for every two successive instants of the clock, which gives it for
\* all.
C15_MonthlyEarningsMonotone ==
  (Le(Zero, annualSalary) /\ now > EngineStart /\ getMonth(now - 1) = getMonth(now)) =>
    Le(calculateEarnings(Schedule, annualSalary, now - 1, now - 1),
       calculateEarnings(Schedule, annualSalary, now, now))

\* a callback stored monthly earnings that are more than an instant before,
\* on a day of the month that is not its first
C15_Witness ==
  /\ ~due
  /\ now > EngineStart
  /\ getMonth(now - 1) = getMonth(now)
  /\ getDate(now) > 1
  /\ earnedSoFar = calculateEarnings(Schedule, annualSalary, now, now)
  /\ Lt(calculateEarnings(Schedule, annualSalary, now - 1, now - 1), earnedSoFar)

\* the last day of the month of `clock`, from the calendar
LastDayOf(clock) == MonthLengths[getMonth(clock) + 1]

\* `clock` is of the last day of its month, at or after endHour
AfterWorkOnLastDay(clock) ==
  /\ getDate(clock) = LastDayOf(clock)
  /\ clock >= StartOfDay(clock) + endHour.n * TicksPerHour

\* C16: for every Schedule with startHour < endHour and every now,
\* 0 <= elapsedHoursThisMonth <= totalWorkingHoursThisMonth, so the clamp of
\* calculateEarnings leaves the ratio as it is; and in a month with a working
\* day, at or after endHour on the last day of the month the two are equal and
\* earningsThisMonth is exactly annualSalary / 12.
C16_ElapsedWithinTotal ==
  startHour.n < endHour.n =>
    LET elapsed == getWorkingHoursSoFarThisMonth(Schedule, now)
        total == getTotalWorkingHoursThisMonth(Schedule, now)
    IN  /\ Le(Zero, elapsed)
        /\ Le(elapsed, total)
        /\ total # Zero => monthlyFraction(Schedule, now, now) = JsDiv(elapsed, total)
        /\ (WorkingDaysIn(getMonth(now), LastDayOf(now)) >= 1 /\ AfterWorkOnLastDay(now)) =>
             /\ elapsed = total
             /\ calculateEarnings(Schedule, annualSalary, now, now)
                  = JsDiv(annualSalary, Int2Num(12))

\* a callback at the end of the last day of May stored the full monthly salary
C16_Witness ==
  /\ startHour.n < endHour.n
  /\ AfterWorkOnLastDay(now)
  /\ ~due
  /\ annualSalary = Int2Num(30000)
  /\ earnedSoFar = Int2Num(2500)
  /\ getWorkingHoursSoFarThisMonth(Schedule, now)
       = Int2Num(TotalHoursOfMonth(now))

\* a step of one of the five edit handlers
UserEdit ==
  \/ \E entry \in Entries : handleSalaryChange(entry)
  \/ \E entry \in Entries : handleStartHourChange(entry)
  \/ \E entry \in Entries : handleEndHourChange(entry)
  \/ \E value \in Currencies : handleCurrencyChange(value)
  \/ \E dayIndex \in Weekdays : handleDayToggle(dayIndex)

\* the amounts shown are the monthly and daily earnings of the Schedule as it
\* is now, of clock readings not older than the instant before
EarningsOfScheduleDisplayed ==
  \E c1, c2, c3, c4 \in (now - 1) .. now :
    /\ c1 <= c2 /\ c2 <= c3 /\ c3 <= c4
    /\ earnedSoFar = MonthlyEarnings(c1, c2)
    /\ earnedToday = DailyEarnings(c3, c4)

\* C17: earnedSoFar and earnedToday start at 0; an edit does not change them,
\* only a callback of the interval does; and after an edit, unless the
\* component is torn down, they eventually are the monthly and daily earnings
\* of the Schedule as edited.
C17_EditEventuallyDisplayed ==
  /\ (earnedSoFar = Zero /\ earnedToday = Zero)
  /\ [][UserEdit => UNCHANGED <<earnedSoFar, earnedToday>>]_vars
  /\ [][<<earnedSoFar, earnedToday>>' # <<earnedSoFar, earnedToday>>
          => Tick(MountInstant + Horizon)]_vars
  /\ (mounted /\ edits >= 1) ~> (~mounted \/ EarningsOfScheduleDisplayed)

\* the start hour was edited to 7 and a callback has stored the earnings of
\* the window that starts at 7
C17_Witness ==
  /\ mounted
  /\ edits >= 1
  /\ ~due
  /\ startHour = Int2Num(7)
  /\ endHour = Int2Num(18)
  /\ earnedToday = DailyEarnings(now, now)
  /\ earnedSoFar = MonthlyEarnings(now, now)
  /\ earnedToday # Zero

====
